---- MODULE Spec2Model ----
(***************************************************************************)
(* Model of services/task_tracker.py: the in-memory registry of video      *)
(* generation tasks, the polling loop, the per-provider status parsers and *)
(* the notification branches, together with the handlers that register     *)
(* tasks.                                                                  *)
(*                                                                         *)
(* Provider payloads are Python JSON values.  A value is a record tagged   *)
(* by t: "absent" (key missing), "none", "int", "str", "list", "dict".     *)
(* The parsers are translated statement by statement; an exception that    *)
(* the Python code would raise is the result Raise.                        *)
(***************************************************************************)
EXTENDS Integers, Sequences, FiniteSets, TLC

VARIABLES
    tasks,           \* TaskTracker.tasks: dict in insertion order, a sequence of VideoTask
    bot,             \* TaskTracker._bot is set
    pc,              \* where poll_tasks is suspended ("none": _polling_task is None)
    tasks_to_check,  \* the tick's list(self.tasks.values())
    idx,             \* position of the for loop in tasks_to_check
    note,            \* the notification being awaited: kind, video_url, error
    now,             \* datetime.now(), in minutes
    next_uid,        \* identity of the next VideoTask object constructed
    notified,        \* history: per task object, the notifications attempted
    removed,         \* history: registry entries deleted by the poller
    replaced,        \* history: task objects overwritten by add_task
    overdue,         \* history: task objects past the timeout when the tick took its snapshot
    n_model,         \* parser check: the task's model
    n_resp,          \* parser check: the raw response
    n_res,           \* parser check: the parser's result
    loops,           \* poll_tasks coroutines created and not yet ended
    launches,        \* history: create_task calls made by start_polling
    call,            \* registry check: the last call on the registry and what it raised
    allowed_ids_str, \* the ALLOWED_USER_IDS environment value, as characters
    ALLOWED_USER_IDS,\* config.ALLOWED_USER_IDS
    event,           \* the last event given to AuthMiddleware
    answer           \* what AuthMiddleware did with it

vars == <<tasks, bot, pc, tasks_to_check, idx, note, now, next_uid, notified,
          removed, replaced, overdue, n_model, n_resp, n_res, loops, launches, call,
          allowed_ids_str, ALLOWED_USER_IDS, event, answer>>

trackerVars == <<tasks, bot, pc, tasks_to_check, idx, note, now, next_uid,
                 notified, removed, replaced, overdue, loops, launches, call>>

parserVars == <<n_model, n_resp, n_res>>

authVars == <<allowed_ids_str, ALLOWED_USER_IDS, event, answer>>

----------------------------------------------------------------------------
(* Python values *)

Absent == [t |-> "absent"]
None == [t |-> "none"]
VInt(n) == [t |-> "int", n |-> n]
VStr(s) == [t |-> "str", s |-> s]
VList(q) == [t |-> "list", q |-> q]
VDict(d) == [t |-> "dict", d |-> d]
EmptyDict == VDict([k \in {} |-> Absent])
EmptyList == VList(<<>>)

\* isinstance(x, dict) / isinstance(x, str)
IsDict(x) == x.t = "dict"
IsStr(x) == x.t = "str"

\* key in d
HasKey(x, k) == k \in DOMAIN x.d /\ x.d[k].t # "absent"

\* d.get(k, default); the caller has established that d is a dict
get(x, k, default) == IF HasKey(x, k) THEN x.d[k] ELSE default

\* bool(x)
Truthy(x) ==
    CASE x.t = "absent" -> FALSE
      [] x.t = "none" -> FALSE
      [] x.t = "int" -> x.n # 0
      [] x.t = "str" -> x.s # ""
      [] x.t = "list" -> x.q # <<>>
      [] x.t = "dict" -> \E k \in DOMAIN x.d : x.d[k].t # "absent"

\* a or b
Or(a, b) == IF Truthy(a) THEN a ELSE b

\* x == n for an int literal n
EqInt(x, n) == x.t = "int" /\ x.n = n

\* x == s / x in (s1, s2, ...) for string literals
InStrs(x, S) == x.t = "str" /\ x.s \in S

\* str(x)
py_str(x) ==
    CASE x.t = "str" -> x
      [] x.t = "int" -> VStr(ToString(x.n))
      [] x.t = "none" -> VStr("None")
      [] OTHER -> VStr("<object>")

\* s.lower() on the strings the model's payloads carry
Lower(s) ==
    CASE s = "Record Is Null" -> "record is null"
      [] s = "Record status is NOT success" -> "record status is not success"
      [] s = "Internal Error" -> "internal error"
      [] s = "SUCCESS" -> "success"
      [] s = "Done" -> "done"
      [] s = "FAILED" -> "failed"
      [] s = "None" -> "none"
      [] OTHER -> s

\* needle in hay, for the two needles of _parse_veo_status
Contains(needle, hay) ==
    CASE needle = "record is null" ->
            hay \in {"record is null", "task record is null."}
      [] needle = "record status is not success" ->
            hay \in {"record status is not success"}
      [] OTHER -> FALSE

\* json.loads(text): the parsed value, or JSONDecodeError
JSONDecodeError == [t |-> "JSONDecodeError"]
U1 == "https://x/r.mp4"
U2 == "https://x/alt.mp4"
U3 == "https://x/info.mp4"
U4 == "https://x/videoUrl.mp4"
U5 == "https://x/video_url.mp4"
U6 == "https://x/url.mp4"
json_loads(text) ==
    CASE text = "{\"resultUrls\":[\"https://x/r.mp4\"]}" ->
            VDict([resultUrls |-> VList(<<VStr(U1)>>)])
      [] text = "{\"resultUrls\":[]}" -> VDict([resultUrls |-> EmptyList])
      [] text = "{\"resultUrls\":[\"\"]}" -> VDict([resultUrls |-> VList(<<VStr("")>>)])
      [] text = "{}" -> EmptyDict
      [] text = "[]" -> EmptyList
      [] text = "null" -> None
      [] OTHER -> JSONDecodeError

----------------------------------------------------------------------------
(* Parser results: (status, video_url, error), or the exception raised *)

Result(status, video_url, error) ==
    [status |-> status, video_url |-> video_url, error |-> error]
Pending == Result("pending", None, None)
Raise == Result("raise", None, None)

\* An exception propagating out of the expression being evaluated
Exc == [t |-> "exception"]
IsExc(x) == x.t = "exception"

\* x[0] for a truthy x: the first element of a list, TypeError/KeyError otherwise
Subscript0(x) == IF x.t = "list" THEN x.q[1] ELSE Exc

----------------------------------------------------------------------------
(* _parse_veo_status *)

\* code != 200 reported as a failure unless it is the 422 "record is null" answer
veo_non200_fails(code, msg) ==
    IF EqInt(code, 422) /\ Contains("record is null", Lower(py_str(msg).s))
    THEN Pending
    ELSE IF EqInt(code, 422) THEN Pending
    ELSE Result("failed", None, py_str(msg))

\* code != 200 with the message compared before it is lower-cased, failing otherwise
veo_non200_case(code, msg) ==
    IF EqInt(code, 422)
    THEN IF Contains("record is null", py_str(msg).s)
         THEN Pending
         ELSE IF Contains("record status is not success", py_str(msg).s)
              THEN Pending
              ELSE Result("failed", None, py_str(msg))
    ELSE Pending

\* lines 70-83: code != 200
veo_non200(code, msg) ==
    IF EqInt(code, 422)
    THEN IF Contains("record is null", Lower(py_str(msg).s))
         THEN Pending
         ELSE IF Contains("record status is not success", Lower(py_str(msg).s))
              THEN Pending
              ELSE Pending
    ELSE Pending

\* lines 100-105: data.response.resultUrls[0]
veo_url_response(data) ==
    LET resp_data == get(data, "response", EmptyDict)
    IN  IF IsDict(resp_data)
        THEN LET result_urls == get(resp_data, "resultUrls", EmptyList)
             IN  IF Truthy(result_urls) THEN Subscript0(result_urls) ELSE None
        ELSE None

\* lines 108-112: data.resultUrls[0], kept is the value found so far
veo_url_alt(data, kept) ==
    IF IsExc(kept) THEN Exc
    ELSE IF ~Truthy(kept)
    THEN LET result_urls == get(data, "resultUrls", EmptyList)
         IN  IF Truthy(result_urls) THEN Subscript0(result_urls) ELSE kept
    ELSE kept

\* successFlag == 1 reported as completed whether or not a URL was found
veo_success_any_url(data) ==
    LET video_url == veo_url_alt(data, veo_url_response(data))
    IN  IF IsExc(video_url) THEN Raise ELSE Result("completed", video_url, None)

\* lines 95-118: successFlag == 1
veo_success(data) ==
    LET video_url == veo_url_alt(data, veo_url_response(data))
    IN  IF IsExc(video_url) THEN Raise
        ELSE IF Truthy(video_url) THEN Result("completed", video_url, None)
        ELSE Pending

\* lines 120-129: successFlag == 0
veo_error(data) ==
    LET error_msg == Or(get(data, "errorMessage", None), get(data, "errorCode", None))
    IN  IF Truthy(error_msg) THEN Result("failed", None, py_str(error_msg))
        ELSE Pending

_parse_veo_status(response) ==
    LET code == get(response, "code", None)
        msg == get(response, "msg", VStr(""))
    IN  IF ~EqInt(code, 200) THEN veo_non200(code, msg)
        ELSE LET data == get(response, "data", EmptyDict)
             IN  IF ~Truthy(data) THEN Pending
                 ELSE IF ~IsDict(data) THEN Raise
                 ELSE LET success_flag == get(data, "successFlag", None)
                      IN  IF EqInt(success_flag, 1) THEN veo_success(data)
                          ELSE IF EqInt(success_flag, 0) THEN veo_error(data)
                          ELSE Pending

----------------------------------------------------------------------------
(* _parse_sora_status *)

\* data.get(key, "").lower(): AttributeError when the value is not a string
sora_lower(data, key) ==
    LET v == get(data, key, VStr(""))
    IN  IF IsStr(v) THEN VStr(Lower(v.s)) ELSE Exc

\* lines 149-153: state, else status, else taskStatus
sora_state(data) ==
    LET s1 == sora_lower(data, "state")
    IN  IF IsExc(s1) \/ Truthy(s1) THEN s1
        ELSE LET s2 == sora_lower(data, "status")
             IN  IF IsExc(s2) \/ Truthy(s2) THEN s2
                 ELSE sora_lower(data, "taskStatus")

\* lines 161-169: resultJson as a JSON string
sora_url_json_str(data) ==
    LET result_json_str == get(data, "resultJson", None)
    IN  IF Truthy(result_json_str) /\ IsStr(result_json_str)
        THEN LET result_data == json_loads(result_json_str.s)
             IN  IF result_data = JSONDecodeError THEN None
                 ELSE IF ~IsDict(result_data) THEN Exc
                 ELSE LET urls == get(result_data, "resultUrls", EmptyList)
                      IN  IF Truthy(urls) THEN Subscript0(urls) ELSE None
        ELSE None

\* lines 172-177: resultJson as an object
sora_url_json_obj(data, kept) ==
    IF IsExc(kept) THEN Exc
    ELSE IF ~Truthy(kept)
    THEN LET result_json == get(data, "resultJson", EmptyDict)
         IN  IF IsDict(result_json)
             THEN LET urls == get(result_json, "resultUrls", EmptyList)
                  IN  IF Truthy(urls) THEN Subscript0(urls) ELSE kept
             ELSE kept
    ELSE kept

\* lines 180-182: videoInfo.videoUrl
sora_url_video_info(data, kept) ==
    IF IsExc(kept) THEN Exc
    ELSE IF ~Truthy(kept)
    THEN LET video_info == get(data, "videoInfo", EmptyDict)
         IN  IF IsDict(video_info) THEN get(video_info, "videoUrl", None) ELSE Exc
    ELSE kept

\* the direct fields probed in the order url, video_url, videoUrl
sora_url_direct_swapped(data, kept) ==
    IF IsExc(kept) THEN Exc
    ELSE IF ~Truthy(kept)
    THEN Or(Or(get(data, "url", None), get(data, "video_url", None)),
            get(data, "videoUrl", None))
    ELSE kept

\* lines 185-186: videoUrl or video_url or url
sora_url_direct(data, kept) ==
    IF IsExc(kept) THEN Exc
    ELSE IF ~Truthy(kept)
    THEN Or(Or(get(data, "videoUrl", None), get(data, "video_url", None)),
            get(data, "url", None))
    ELSE kept

\* lines 157-192: state in ("success", "completed", "done")
sora_success(data) ==
    LET video_url ==
            sora_url_direct(data,
                sora_url_video_info(data,
                    sora_url_json_obj(data, sora_url_json_str(data))))
    IN  IF IsExc(video_url) THEN Raise
        ELSE IF Truthy(video_url) THEN Result("completed", video_url, None)
        ELSE Pending

\* a failed branch that reads failMsg only
sora_failed_failMsg_only(data) ==
    Result("failed", None, Or(get(data, "failMsg", None), VStr("Generation failed")))

\* lines 194-196: state in ("failed", "fail", "error")
sora_failed(data) ==
    LET error == Or(Or(Or(get(data, "failMsg", None), get(data, "errorMessage", None)),
                       get(data, "error", None)),
                    VStr("Generation failed"))
    IN  Result("failed", None, error)

_parse_sora_status(response) ==
    LET code == get(response, "code", None)
    IN  IF ~EqInt(code, 200) THEN Pending
        ELSE LET data == get(response, "data", EmptyDict)
             IN  IF ~IsDict(data) THEN Raise
                 ELSE LET state == sora_state(data)
                      IN  IF IsExc(state) THEN Raise
                          ELSE IF InStrs(state, {"success", "completed", "done"})
                               THEN sora_success(data)
                          ELSE IF InStrs(state, {"failed", "fail", "error"})
                               THEN sora_failed(data)
                          ELSE Pending

----------------------------------------------------------------------------
(* _parse_heygen_status, _parse_status *)

_parse_heygen_status(response) ==
    LET data == get(response, "data", EmptyDict)
    IN  IF ~IsDict(data) THEN Raise
        ELSE LET status == get(data, "status", VStr("unknown"))
             IN  IF InStrs(status, {"completed"})
                 THEN Result("completed", get(data, "video_url", None), None)
                 ELSE IF InStrs(status, {"failed"})
                 THEN Result("failed", None, get(data, "error", VStr("Generation failed")))
                 ELSE Pending

_parse_status(model, response) ==
    IF model = "heygen" THEN _parse_heygen_status(response)
    ELSE IF model \in {"veo3", "veo3_fast"} THEN _parse_veo_status(response)
    ELSE _parse_sora_status(response)

----------------------------------------------------------------------------
(* The raw responses the parsers are checked on *)

Models == {"sora2", "veo3", "veo3_fast", "heygen", "kling_motion"}
VeoModels == {"veo3", "veo3_fast"}

\* check_task_status, lines 56-58: the dict returned when the gateway call raises
ErrorDict == VDict([error |-> VStr("Kie.ai API unavailable")])

Response(code, msg, data) == VDict([code |-> code, msg |-> msg, data |-> data])

VeoMsgs ==
    {Absent, None, VStr("success"), VStr("Record Is Null"), VStr("task record is null."),
     VStr("Record status is NOT success"), VStr("Internal Error")}

VeoData(successFlag, response, resultUrls, errorMessage, errorCode) ==
    VDict([successFlag |-> successFlag, response |-> response, resultUrls |-> resultUrls,
           errorMessage |-> errorMessage, errorCode |-> errorCode])

VeoDatas ==
    {Absent, None, EmptyDict, VStr("queued")} \cup
    { VeoData(f, r, u, m, c) :
        f \in {Absent, None, VInt(0), VInt(1), VInt(2), VStr("1")},
        r \in {Absent, None, VStr("n/a")} \cup
              { VDict([resultUrls |-> x]) :
                  x \in {Absent, None, EmptyList, VList(<<VStr("")>>),
                         VList(<<VStr(U1)>>), VList(<<VStr(U1), VStr(U3)>>)} },
        u \in {Absent, EmptyList, VList(<<VStr("")>>), VList(<<VStr(U2)>>)},
        m \in {Absent, VStr(""), VStr("quota exceeded")},
        c \in {Absent, VInt(501)} }

VeoResponses ==
    {ErrorDict} \cup
    { Response(VInt(200), m, d) : m \in {Absent, VStr("success")}, d \in VeoDatas } \cup
    { Response(c, m, d) :
        c \in {Absent, None, VInt(422), VInt(500), VStr("200")},
        m \in VeoMsgs,
        d \in {Absent, None,
               VeoData(VInt(0), Absent, Absent, VStr("quota exceeded"), Absent),
               VeoData(VInt(1), Absent, VList(<<VStr(U2)>>), Absent, Absent)} }

SoraData(state, status, taskStatus, resultJson, videoInfo, videoUrl, video_url, url, failMsg, errorMessage, error) ==
    VDict([state |-> state, status |-> status, taskStatus |-> taskStatus,
           resultJson |-> resultJson, videoInfo |-> videoInfo, videoUrl |-> videoUrl,
           video_url |-> video_url, url |-> url, failMsg |-> failMsg,
           errorMessage |-> errorMessage, error |-> error])

SoraResultJsons ==
    {Absent, None, VStr(""), VStr("not json"),
     VStr("{\"resultUrls\":[\"https://x/r.mp4\"]}"), VStr("{\"resultUrls\":[]}"),
     VStr("{\"resultUrls\":[\"\"]}"), VStr("{}"), VStr("[]"), VStr("null"),
     VDict([resultUrls |-> VList(<<VStr(U2)>>)]), VDict([resultUrls |-> EmptyList]),
     EmptyList}

SoraDatas ==
    {Absent, None, EmptyDict, VStr("queued")} \cup
    \* how the state is found
    { SoraData(s, st, ts, Absent, Absent, Absent, Absent, u, f, Absent, Absent) :
        s \in {Absent, None, VStr(""), VStr("success"), VStr("SUCCESS"), VStr("fail"),
               VStr("waiting"), VInt(1)},
        st \in {Absent, None, VStr("completed"), VStr("generating")},
        ts \in {Absent, VStr("Done"), VStr("error")},
        u \in {Absent, VStr(U6)},
        f \in {Absent, VStr("nsfw")} } \cup
    \* where the result locator is found
    { SoraData(VStr("success"), Absent, Absent, rj, vi, vu, v_u, u, Absent, Absent, Absent) :
        rj \in SoraResultJsons,
        vi \in {Absent, None, EmptyDict, VDict([videoUrl |-> VStr("")]),
                VDict([videoUrl |-> VStr(U3)])},
        vu \in {Absent, VStr(""), VStr(U4)},
        v_u \in {Absent, VStr(U5)},
        u \in {Absent, VStr(U6)} } \cup
    \* where the failure reason is found
    { SoraData(s, Absent, Absent, Absent, Absent, Absent, Absent, Absent, f, m, e) :
        s \in {VStr("fail"), VStr("FAILED"), VStr("error")},
        f \in {Absent, VStr(""), VStr("nsfw")},
        m \in {Absent, VStr("bad prompt")},
        e \in {Absent, None, VStr("internal")} }

SoraResponses ==
    {ErrorDict} \cup
    { Response(VInt(200), VStr("success"), d) : d \in SoraDatas } \cup
    { Response(c, m, d) :
        c \in {Absent, None, VInt(422), VInt(500)},
        m \in {Absent, VStr("Internal Error")},
        d \in {Absent, None,
               SoraData(VStr("fail"), Absent, Absent, Absent, Absent, Absent, Absent,
                        Absent, VStr("nsfw"), Absent, Absent),
               SoraData(VStr("success"), Absent, Absent, Absent, Absent, Absent, Absent,
                        VStr(U6), Absent, Absent, Absent)} }

HeygenDatas ==
    {Absent, None, EmptyDict, VStr("queued")} \cup
    { VDict([status |-> s, video_url |-> v, error |-> e]) :
        s \in {Absent, None, VInt(1), VStr("completed"), VStr("failed"),
               VStr("processing"), VStr("waiting"), VStr("pending")},
        v \in {Absent, None, VStr(""), VStr(U1)},
        e \in {Absent, None, VStr(""), VStr("render failed"),
               VDict([message |-> VStr("render failed")])} }

HeygenResponses ==
    {ErrorDict} \cup
    { VDict([code |-> c, data |-> d]) :
        c \in {Absent, VInt(100), VInt(400)}, d \in HeygenDatas }

\* a check_task_status that queries the unified record endpoint for every model
check_task_status_unified(model) == "kieai_service.get_task_status"

\* check_task_status, lines 50-55: the gateway call made for a task of the model
check_task_status(model) ==
    IF model = "heygen" THEN "heygen_service.get_video_status"
    ELSE IF model \in {"veo3", "veo3_fast"} THEN "kieai_service.get_veo_status"
    ELSE "kieai_service.get_task_status"

\* what a gateway call returns: HeyGen's /v1/video_status.get, Kie.ai's
\* /api/v1/veo/record-info and Kie.ai's /api/v1/jobs/recordInfo
EndpointResponses(endpoint) ==
    IF endpoint = "heygen_service.get_video_status" THEN HeygenResponses
    ELSE IF endpoint = "kieai_service.get_veo_status" THEN VeoResponses
    ELSE SoraResponses

\* the responses of the status endpoint check_task_status queries for a model
Responses(model) == EndpointResponses(check_task_status(model))

----------------------------------------------------------------------------
(* The registry and the polling loop *)

MaxTasks == 3       \* VideoTask objects constructed in a run
MaxNow == 60        \* the clock stops here
ClockStep == 30     \* minutes the clock advances at a time
LifeTasks == 1      \* VideoTask objects constructed in a run with stop_polling
MaxStarts == 2      \* poll_tasks tasks created in a run with stop_polling
FairTasks == 2      \* VideoTask objects constructed in a run of the fair poller
MaxEnvLen == 3      \* characters of the ALLOWED_USER_IDS environment value
TimeoutMinutes == 30

TaskIds == {"t1", "t2"}
SubmitModels == {"veo3_fast", "heygen"}

\* VideoTask; uid is the identity of the Python object (with its chat_id, user_id and
\* prompt), subtitles_data the attribute process_orientation_and_generate sets on it;
\* status, result_url and error take the defaults of the dataclass (lines 18-20)
VideoTask(uid, task_id, model, created_at, subtitles_data) ==
    [uid |-> uid, task_id |-> task_id, model |-> model,
     created_at |-> created_at, subtitles_data |-> subtitles_data,
     status |-> "pending", result_url |-> None, error |-> None]

Range(q) == { q[i] : i \in DOMAIN q }
Registered == { t.uid : t \in Range(tasks) }

\* add_task that appends without looking for the key
add_task_append(ts, task) == Append(ts, task)

\* self.tasks[task.task_id] = task
add_task(ts, task) ==
    IF \E i \in DOMAIN ts : ts[i].task_id = task.task_id
    THEN [i \in DOMAIN ts |-> IF ts[i].task_id = task.task_id THEN task ELSE ts[i]]
    ELSE Append(ts, task)

\* remove_task that deletes nothing
remove_task_keeps(ts, task_id) == ts

\* remove_task that empties the registry
remove_task_clears(ts, task_id) == <<>>

\* a statement on the registry ends: the registry it leaves, and what it raised
Done(ts) == [raised |-> "none", tasks |-> ts]
KeyError(ts) == [raised |-> "KeyError", tasks |-> ts]

\* task_id in self.tasks
contains(ts, task_id) == \E i \in DOMAIN ts : ts[i].task_id = task_id

\* del self.tasks[task_id]
delitem(ts, task_id) ==
    IF contains(ts, task_id)
    THEN Done(SelectSeq(ts, LAMBDA t : t.task_id # task_id))
    ELSE KeyError(ts)

\* if task_id in self.tasks: del self.tasks[task_id]
remove_task(ts, task_id) ==
    IF contains(ts, task_id) THEN delitem(ts, task_id).tasks ELSE ts

\* remove_task without the test of line 41
remove_task_raised_unguarded(ts, task_id) == delitem(ts, task_id).raised

\* what remove_task(task_id) raises
remove_task_raised(ts, task_id) ==
    IF contains(ts, task_id) THEN delitem(ts, task_id).raised ELSE "none"

\* an assignment through the registry that creates the entry it does not find
set_subtitles_data_creates(ts, task_id, data) ==
    IF contains(ts, task_id)
    THEN Done([i \in DOMAIN ts |->
                 IF ts[i].task_id = task_id THEN [ts[i] EXCEPT !.subtitles_data = data]
                                            ELSE ts[i]])
    ELSE Done(Append(ts, VideoTask(0, task_id, "kling_motion", 0, data)))

\* task_tracker.tasks[task_id].subtitles_data = data (avatar_video.py, line 864)
set_subtitles_data(ts, task_id, data) ==
    IF contains(ts, task_id)
    THEN Done([i \in DOMAIN ts |->
                 IF ts[i].task_id = task_id THEN [ts[i] EXCEPT !.subtitles_data = data]
                                            ELSE ts[i]])
    ELSE KeyError(ts)

\* a loop without the timeout test
timed_out_never(task, t_now) == FALSE

\* a timeout test that lets a job run twice the time
timed_out_late(task, t_now) == t_now - task.created_at > 2 * TimeoutMinutes

\* a timeout test that gives HeyGen jobs twice the time
timed_out_by_kind(task, t_now) ==
    t_now - task.created_at >
        (IF task.model = "heygen" THEN 2 * TimeoutMinutes ELSE TimeoutMinutes)

\* datetime.now() - task.created_at > timedelta(minutes=30)
timed_out(task, t_now) == t_now - task.created_at > TimeoutMinutes

\* a tick that does not test the URL of a completed status
outcome_any_url(res) ==
    IF res.status = "completed" THEN "success"
    ELSE IF res.status = "failed" /\ Truthy(res.error) THEN "failure"
    ELSE "pending"

\* a tick that reports every status that is not a success as a failure
outcome_reports_pending(res) ==
    IF res.status = "completed" /\ Truthy(res.video_url) THEN "success" ELSE "failure"

\* poll_tasks, lines 246-252: what the tick does with the parsed status
outcome(res) ==
    IF res.status = "completed" /\ Truthy(res.video_url) THEN "success"
    ELSE IF res.status = "failed" /\ Truthy(res.error) THEN "failure"
    ELSE "pending"

\* the responses the status endpoints give while a tick polls
PollResponses(model) ==
    IF model = "heygen"
    THEN {ErrorDict,
          VDict([code |-> VInt(100), data |-> VDict([status |-> VStr("processing"),
                 video_url |-> Absent, error |-> Absent])]),
          VDict([code |-> VInt(100), data |-> VDict([status |-> VStr("completed"),
                 video_url |-> VStr(U1), error |-> Absent])]),
          VDict([code |-> VInt(100), data |-> VDict([status |-> VStr("completed"),
                 video_url |-> None, error |-> Absent])]),
          VDict([code |-> VInt(100), data |-> VDict([status |-> VStr("failed"),
                 video_url |-> Absent, error |-> VStr("render failed")])]),
          VDict([code |-> VInt(100), data |-> VDict([status |-> VStr("failed"),
                 video_url |-> Absent, error |-> None])]),
          VDict([code |-> VInt(400), data |-> None])}
    ELSE IF model \in VeoModels
    THEN {ErrorDict,
          Response(VInt(422), VStr("Record Is Null"), None),
          Response(VInt(200), VStr("success"),
                   VeoData(VInt(1), VDict([resultUrls |-> VList(<<VStr(U1)>>)]),
                           Absent, Absent, Absent)),
          Response(VInt(200), VStr("success"),
                   VeoData(VInt(1), Absent, Absent, Absent, Absent)),
          Response(VInt(200), VStr("success"),
                   VeoData(VInt(0), Absent, Absent, VStr("quota exceeded"), Absent))}
    ELSE {ErrorDict,
          Response(VInt(200), VStr("success"),
                   SoraData(VStr("waiting"), Absent, Absent, Absent, Absent, Absent,
                            Absent, Absent, Absent, Absent, Absent)),
          Response(VInt(200), VStr("success"),
                   SoraData(VStr("success"), Absent, Absent,
                            VStr("{\"resultUrls\":[\"https://x/r.mp4\"]}"), Absent,
                            Absent, Absent, Absent, Absent, Absent, Absent)),
          Response(VInt(200), VStr("success"),
                   SoraData(VStr("fail"), Absent, Absent, Absent, Absent, Absent,
                            Absent, Absent, VStr("nsfw"), Absent, Absent)),
          Response(VInt(200), VStr("success"), None)}

\* the characters of an environment value: two decimal digits, the separator, a
\* space, a letter, and a character such as SUPERSCRIPT TWO that str.isdigit accepts
\* and int rejects
Superscript == "sup2"
EnvChars == {"1", "2", ",", " ", "x", Superscript}
EnvValues == UNION { [1..k -> EnvChars] : k \in 0..MaxEnvLen }

\* the ids of the users events come from
UserIds == {1, 2, 12, 5}

\* int() raised; no id is negative
ValueError == -1

\* str.split(sep): the texts between the separators, empty ones included
split(s, sep) ==
    LET cuts == {0} \cup { i \in DOMAIN s : s[i] = sep } \cup {Len(s) + 1}
        cut(k) == CHOOSE c \in cuts : Cardinality({ d \in cuts : d < c }) = k
    IN  [k \in 1..(Cardinality(cuts) - 1) |-> SubSeq(s, cut(k - 1) + 1, cut(k) - 1)]

\* str.strip(): without the leading and trailing whitespace
strip(s) ==
    LET inked == { i \in DOMAIN s : s[i] # " " }
    IN  IF inked = {} THEN <<>>
        ELSE SubSeq(s, CHOOSE i \in inked : \A j \in inked : i <= j,
                       CHOOSE i \in inked : \A j \in inked : i >= j)

\* str.isdigit(): not empty and every character a digit
isdigit(s) == s # <<>> /\ \A i \in DOMAIN s : s[i] \in {"1", "2", Superscript}

\* int(s): the decimal value, ValueError for anything but decimal digits
int(s) ==
    IF s = <<>> \/ \E i \in DOMAIN s : s[i] \notin {"1", "2"} THEN ValueError
    ELSE LET val[i \in 0..Len(s)] ==
                 IF i = 0 THEN 0 ELSE 10 * val[i - 1] + (IF s[i] = "1" THEN 1 ELSE 2)
         IN  val[Len(s)]

\* Config.__post_init__, lines 31-44: the list parsed from the environment value
post_init(str) ==
    IF str = <<>> THEN <<>>
    ELSE LET kept == SelectSeq(split(str, ","), LAMBDA uid : isdigit(strip(uid)))
             ids == [i \in DOMAIN kept |-> int(strip(kept[i]))]
         IN  IF \E i \in DOMAIN ids : ids[i] = ValueError THEN <<>> ELSE ids

\* Config.is_user_allowed, lines 46-50
is_user_allowed(ids, user_id) ==
    IF ids = <<>> THEN TRUE ELSE \E i \in DOMAIN ids : ids[i] = user_id

NoUser == 0
NoEvent == [kind |-> "none", from_user |-> NoUser]
NoAnswer == [handler |-> FALSE, text |-> "none", raised |-> "none"]

\* the bot started without ALLOWED_USER_IDS in its environment, no event yet
NoAccessList ==
    /\ allowed_ids_str = <<>>
    /\ ALLOWED_USER_IDS = <<>>
    /\ event = NoEvent
    /\ answer = NoAnswer

NoNote == [kind |-> "none", arg |-> None]
NotParsed == Result("none", None, None)
NoCall == [op |-> "none", task_id |-> "", found |-> FALSE, raised |-> "none"]

Init ==
    /\ tasks = <<>>
    /\ bot = FALSE
    /\ pc = "none"
    /\ tasks_to_check = <<>>
    /\ idx = 0
    /\ note = NoNote
    /\ now = 0
    /\ next_uid = 1
    /\ notified = [u \in 1..MaxTasks |-> <<>>]
    /\ removed = {}
    /\ replaced = {}
    /\ overdue = {}
    /\ n_model = "sora2"
    /\ n_resp = EmptyDict
    /\ n_res = NotParsed
    /\ loops = 0
    /\ launches = 0
    /\ call = NoCall
    /\ NoAccessList

\* TaskTracker.set_bot (bot.py line 43)
set_bot ==
    /\ ~bot
    /\ bot' = TRUE
    /\ UNCHANGED <<tasks, pc, tasks_to_check, idx, note, now, next_uid, notified,
                   removed, replaced, overdue, parserVars, authVars, loops, launches, call>>

\* start_polling when a poll_tasks task exists and is not done
can_launch_always(p) == TRUE

\* if self._polling_task is None or self._polling_task.done()
can_launch(p) == p = "none" \/ p = "done"

\* TaskTracker.start_polling: creates the poll_tasks task when there is none, or
\* when the one there is has ended; the new coroutine runs to its first sleep(30).
\* call records the call
start_polling ==
    /\ IF can_launch(pc)
       THEN /\ pc' = "sleep30"
            /\ loops' = loops + 1
            /\ launches' = launches + 1
       ELSE UNCHANGED <<pc, loops, launches>>
    /\ call' = [op |-> "start_polling", task_id |-> "", found |-> FALSE,
                raised |-> "none"]
    /\ UNCHANGED <<tasks, bot, tasks_to_check, idx, note, now, next_uid, notified,
                   removed, replaced, overdue, parserVars, authVars>>

\* the registry after add_task(task), with the overwritten object recorded
Register(task) ==
    /\ tasks' = add_task(tasks, task)
    /\ replaced' = replaced \cup
            { t.uid : t \in { x \in Range(tasks) : x.task_id = task.task_id } }
    /\ next_uid' = next_uid + 1

\* short_video.select_aspect_and_generate, lines 243-251: VideoTask(...); add_task
AddTask(task_id, model) ==
    /\ next_uid <= MaxTasks
    /\ Register(VideoTask(next_uid, task_id, model, now, FALSE))
    /\ UNCHANGED <<bot, pc, tasks_to_check, idx, note, now, notified, removed,
                   overdue, parserVars, authVars, loops, launches, call>>

\* avatar_video.process_orientation_and_generate, lines 853-864: add_task, then
\* tasks[task_id].subtitles_data = ... in the same synchronous block
process_orientation_and_generate(task_id, add_subtitles) ==
    /\ next_uid <= MaxTasks
    /\ Register(VideoTask(next_uid, task_id, "kling_motion", now, add_subtitles))
    /\ UNCHANGED <<bot, pc, tasks_to_check, idx, note, now, notified, removed,
                   overdue, parserVars, authVars, loops, launches, call>>

\* time passes
AdvanceClock ==
    /\ now + ClockStep <= MaxNow
    /\ now' = now + ClockStep
    /\ UNCHANGED <<tasks, bot, pc, tasks_to_check, idx, note, next_uid, notified,
                   removed, replaced, overdue, parserVars, authVars, loops, launches, call>>

\* a notification is attempted for the task object
Notify(task, kind, arg) ==
    /\ note' = [kind |-> kind, arg |-> arg]
    /\ notified' = [notified EXCEPT ![task.uid] = Append(@, [kind |-> kind, arg |-> arg])]

\* poll_tasks, lines 234-241: the for loop reaches element i of snap and runs to its
\* first await: _notify_timeout's send, or the status request
BeginJob(snap, i) ==
    IF i > Len(snap)
    THEN /\ pc' = "sleep30"
         /\ tasks_to_check' = <<>>
         /\ idx' = 0
         /\ note' = NoNote
         /\ UNCHANGED notified
    ELSE /\ tasks_to_check' = snap
         /\ idx' = i
         /\ IF timed_out(snap[i], now)
            THEN /\ pc' = "notify"
                 /\ Notify(snap[i], "timeout", None)
            ELSE /\ pc' = "check"
                 /\ note' = NoNote
                 /\ UNCHANGED notified

\* a tick that does not test self._bot
poll_wake_any_bot ==
    /\ pc = "sleep30"
    /\ IF tasks = <<>>
       THEN UNCHANGED <<pc, tasks_to_check, idx, note, notified, overdue>>
       ELSE /\ overdue' = { t.uid : t \in { x \in Range(tasks) : timed_out(x, now) } }
            /\ BeginJob(tasks, 1)
    /\ UNCHANGED <<tasks, bot, now, next_uid, removed, replaced, parserVars, authVars, loops, launches, call>>

\* poll_tasks, lines 226-232: sleep(30) returns
poll_wake ==
    /\ pc = "sleep30"
    /\ IF tasks = <<>> \/ ~bot
       THEN UNCHANGED <<pc, tasks_to_check, idx, note, notified, overdue>>
       ELSE /\ overdue' = { t.uid : t \in { x \in Range(tasks) : timed_out(x, now) } }
            /\ BeginJob(tasks, 1)
    /\ UNCHANGED <<tasks, bot, now, next_uid, removed, replaced, parserVars, authVars, loops, launches, call>>

\* an exception of the try body that ends poll_tasks
poll_except_escapes == "done"

\* poll_tasks, lines 256-258: except Exception logs and sleeps 10 seconds
poll_except == "sleep10"

\* a loop that keeps the parsed result on the task object and does not ask again
\* about a job it has stored as completed or failed
check_response_stores(response) ==
    /\ pc = "check"
    /\ LET task == tasks_to_check[idx]
           res == IF task.status \in {"completed", "failed"}
                  THEN Result(task.status, task.result_url, task.error)
                  ELSE _parse_status(task.model, response)
           keep(q) == [i \in DOMAIN q |->
                          IF q[i].uid = task.uid /\ res.status # "raise"
                          THEN [q[i] EXCEPT !.status = res.status,
                                            !.result_url = res.video_url,
                                            !.error = res.error]
                          ELSE q[i]]
       IN  /\ tasks' = keep(tasks)
           /\ tasks_to_check' = keep(tasks_to_check)
           /\ IF res.status = "raise"
              THEN /\ pc' = poll_except
                   /\ UNCHANGED <<note, notified>>
              ELSE IF outcome(res) = "success"
              THEN /\ pc' = "notify"
                   /\ Notify(task, "success", res.video_url)
              ELSE IF outcome(res) = "failure"
              THEN /\ pc' = "notify"
                   /\ Notify(task, "failure", res.error)
              ELSE /\ pc' = "sleep3"
                   /\ UNCHANGED <<note, notified>>
    /\ UNCHANGED <<bot, idx, now, next_uid, removed, replaced,
                   overdue, parserVars, authVars, loops, launches, call>>

\* poll_tasks, lines 241-254 with check_task_status: the status request returns a
\* response (ErrorDict when it raised), the response is parsed and acted on
check_response(response) ==
    /\ pc = "check"
    /\ LET task == tasks_to_check[idx]
           res == _parse_status(task.model, response)
       IN  IF res.status = "raise"
           THEN /\ pc' = poll_except
                /\ UNCHANGED <<note, notified>>
           ELSE IF outcome(res) = "success"
           THEN /\ pc' = "notify"
                /\ Notify(task, "success", res.video_url)
           ELSE IF outcome(res) = "failure"
           THEN /\ pc' = "notify"
                /\ Notify(task, "failure", res.error)
           ELSE /\ pc' = "sleep3"
                /\ UNCHANGED <<note, notified>>
    /\ UNCHANGED <<tasks, bot, tasks_to_check, idx, now, next_uid, removed, replaced,
                   overdue, parserVars, authVars, loops, launches, call>>

\* the status request of the job the loop is at returns
check_return ==
    /\ pc = "check"
    /\ \E response \in PollResponses(tasks_to_check[idx].model) : check_response(response)

\* the terminal branch ends: remove_task, then continue (timeout) or sleep(3)
Finalize ==
    LET task == tasks_to_check[idx]
    IN  /\ tasks' = remove_task(tasks, task.task_id)
        /\ removed' = removed \cup
                { [uid |-> t.uid, task_id |-> t.task_id, by |-> task.uid,
                   by_id |-> task.task_id] :
                    t \in { x \in Range(tasks) : x \notin Range(remove_task(tasks, task.task_id)) } }
        /\ IF note.kind = "timeout"
           THEN BeginJob(tasks_to_check, idx + 1)
           ELSE /\ pc' = "sleep3"
                /\ note' = NoNote
                /\ UNCHANGED <<tasks_to_check, idx, notified>>

\* a notifier whose failed send escapes to the except branch of poll_tasks
notify_return_raises(sent) ==
    /\ pc = "notify"
    /\ IF ~sent
       THEN /\ pc' = "sleep10"
            /\ UNCHANGED <<tasks, tasks_to_check, idx, note, notified, removed>>
       ELSE Finalize
    /\ UNCHANGED <<bot, now, next_uid, replaced, overdue, parserVars, authVars, loops, launches, call>>

\* _notify_success / _notify_failure / _notify_timeout: the send returns or raises;
\* a failed send_video falls back to send_message, any other failure is swallowed
notify_return(sent) ==
    /\ pc = "notify"
    /\ IF note.kind = "success" /\ ~sent
       THEN /\ pc' = "notify_fallback"
            /\ UNCHANGED <<tasks, tasks_to_check, idx, note, notified, removed>>
       ELSE Finalize
    /\ UNCHANGED <<bot, now, next_uid, replaced, overdue, parserVars, authVars, loops, launches, call>>

\* _notify_success, lines 286-300: the fallback send_message returns or raises
notify_fallback_return ==
    /\ pc = "notify_fallback"
    /\ Finalize
    /\ UNCHANGED <<bot, now, next_uid, replaced, overdue, parserVars, authVars, loops, launches, call>>

\* poll_tasks, line 254: sleep(3) returns, the loop goes to the next element
sleep3_return ==
    /\ pc = "sleep3"
    /\ BeginJob(tasks_to_check, idx + 1)
    /\ UNCHANGED <<tasks, bot, now, next_uid, removed, replaced, overdue, parserVars, authVars, loops, launches, call>>

\* poll_tasks, lines 256-258: sleep(10) in the except branch returns
sleep10_return ==
    /\ pc = "sleep10"
    /\ pc' = "sleep30"
    /\ tasks_to_check' = <<>>
    /\ idx' = 0
    /\ UNCHANGED <<tasks, bot, note, now, next_uid, notified, removed, replaced,
                   overdue, parserVars, authVars, loops, launches, call>>

Next ==
    \/ set_bot
    \/ start_polling
    \/ \E id \in TaskIds, m \in SubmitModels : AddTask(id, m)
    \/ \E id \in TaskIds, subs \in BOOLEAN : process_orientation_and_generate(id, subs)
    \/ AdvanceClock
    \/ poll_wake
    \/ check_return
    \/ \E sent \in BOOLEAN : notify_return(sent)
    \/ notify_fallback_return
    \/ sleep3_return
    \/ sleep10_return

Spec == Init /\ [][Next]_vars

----------------------------------------------------------------------------
(* The tracker with start_polling and stop_polling called in any order *)

\* the poll_tasks task exists and has not ended
Live == {"sleep30", "check", "notify", "notify_fallback", "sleep3", "sleep10", "cancelling"}

\* TaskTracker.stop_polling: cancel() on the task if there is one; on a task that
\* has ended cancel() does nothing. call records the call and whether a task was there
stop_polling ==
    /\ IF pc \in Live THEN pc' = "cancelling" ELSE UNCHANGED pc
    /\ call' = [op |-> "stop_polling", task_id |-> "", found |-> pc # "none",
                raised |-> "none"]
    /\ UNCHANGED <<tasks, bot, tasks_to_check, idx, note, now, next_uid, notified,
                   removed, replaced, overdue, parserVars, authVars, loops, launches>>

\* a CancelledError caught by the except Exception of poll_tasks
cancelled_caught ==
    /\ pc = "cancelling"
    /\ pc' = "sleep10"
    /\ UNCHANGED <<tasks, bot, tasks_to_check, idx, note, now, next_uid, notified,
                   removed, replaced, overdue, parserVars, authVars, loops, launches, call>>

\* the cancelled task runs: CancelledError is raised at the await poll_tasks is
\* suspended at; it is no Exception, so no except clause of the tracker catches it
\* and the coroutine ends
cancelled ==
    /\ pc = "cancelling"
    /\ pc' = "done"
    /\ tasks_to_check' = <<>>
    /\ idx' = 0
    /\ note' = NoNote
    /\ loops' = loops - 1
    /\ UNCHANGED <<tasks, bot, now, next_uid, notified, removed, replaced, overdue,
                   parserVars, authVars, launches, call>>

NextLife ==
    \/ set_bot
    \/ launches < MaxStarts /\ start_polling
    \/ stop_polling
    \/ cancelled
    \/ next_uid <= LifeTasks /\ \E id \in TaskIds, m \in SubmitModels : AddTask(id, m)
    \/ next_uid <= LifeTasks /\ \E id \in TaskIds, subs \in BOOLEAN : process_orientation_and_generate(id, subs)
    \/ AdvanceClock
    \/ poll_wake
    \/ check_return
    \/ \E sent \in BOOLEAN : notify_return(sent)
    \/ notify_fallback_return
    \/ sleep3_return
    \/ sleep10_return

SpecLife == Init /\ [][NextLife]_vars

\* the event loop resumes a coroutine whose sleep has run out, and runs a task that
\* was cancelled
SpecLifeFair ==
    SpecLife /\ WF_vars(sleep10_return) /\ WF_vars(poll_wake) /\ WF_vars(cancelled)

----------------------------------------------------------------------------
(* The poller left running, with time passing *)

\* the last value the clock takes
LastNow == MaxNow - (MaxNow % ClockStep)

\* a job submitted now is past its timeout before the clock stops
ClockOutlasts == now + TimeoutMinutes < LastNow

NextRun ==
    \/ set_bot
    \/ start_polling
    \/ (next_uid <= FairTasks /\ ClockOutlasts) /\ \E id \in TaskIds, m \in SubmitModels : AddTask(id, m)
    \/ (next_uid <= FairTasks /\ ClockOutlasts) /\ \E id \in TaskIds, subs \in BOOLEAN : process_orientation_and_generate(id, subs)
    \/ AdvanceClock
    \/ poll_wake
    \/ check_return
    \/ \E sent \in BOOLEAN : notify_return(sent)
    \/ notify_fallback_return
    \/ sleep3_return
    \/ sleep10_return

\* time passes, every sleep of the loop runs out, and every status request and every
\* send comes back, with whatever answer
SpecRunFair ==
    /\ Init
    /\ [][NextRun]_vars
    /\ WF_vars(AdvanceClock)
    /\ WF_vars(poll_wake)
    /\ WF_vars(check_return)
    /\ WF_vars(\E sent \in BOOLEAN : notify_return(sent))
    /\ WF_vars(notify_fallback_return)
    /\ WF_vars(sleep3_return)
    /\ WF_vars(sleep10_return)

----------------------------------------------------------------------------
(* process_orientation_and_generate statement by statement, beside the poller *)

\* a handler that awaits between add_task and the assignment of subtitles_data
in_sync_block_awaits == FALSE

\* the handler is between line 861 and line 864: it has called add_task and has not
\* yet come to its next await (line 868), so the event loop runs no other coroutine
in_sync_block == call.op = "add_task"

\* avatar_video.py, lines 853-861: VideoTask(...); task_tracker.add_task(video_task).
\* call.found holds add_subtitles and (srt_content or ass_content)
generate_add_task(task_id, add_subtitles) ==
    /\ ~in_sync_block
    /\ next_uid <= MaxTasks
    /\ Register(VideoTask(next_uid, task_id, "kling_motion", now, FALSE))
    /\ call' = [op |-> "add_task", task_id |-> task_id, found |-> add_subtitles,
                raised |-> "none"]
    /\ UNCHANGED <<bot, pc, tasks_to_check, idx, note, now, notified, removed,
                   overdue, parserVars, authVars, loops, launches>>

\* avatar_video.py, lines 863-864: if add_subtitles and (srt_content or ass_content):
\* task_tracker.tasks[task_id].subtitles_data = {...}; a KeyError goes to line 878
generate_attach ==
    /\ call.op = "add_task"
    /\ LET r == IF call.found THEN set_subtitles_data(tasks, call.task_id, TRUE)
                ELSE Done(tasks)
       IN  /\ tasks' = r.tasks
           /\ call' = [op |-> "attach", task_id |-> call.task_id, found |-> call.found,
                       raised |-> r.raised]
    /\ UNCHANGED <<bot, pc, tasks_to_check, idx, note, now, next_uid, notified, removed,
                   replaced, overdue, parserVars, authVars, loops, launches>>

\* the coroutines the event loop runs, one at a time, each up to its next await
NextAttach ==
    \/ next_uid <= FairTasks /\ \E id \in TaskIds, subs \in BOOLEAN : generate_add_task(id, subs)
    \/ generate_attach
    \/ AdvanceClock
    \/ ~in_sync_block /\ set_bot
    \/ ~in_sync_block /\ start_polling
    \/ ~in_sync_block /\ poll_wake
    \/ ~in_sync_block /\ check_return
    \/ ~in_sync_block /\ \E sent \in BOOLEAN : notify_return(sent)
    \/ ~in_sync_block /\ notify_fallback_return
    \/ ~in_sync_block /\ sleep3_return
    \/ ~in_sync_block /\ sleep10_return

SpecAttach == Init /\ [][NextAttach]_vars

----------------------------------------------------------------------------
(* The handlers that submit a generation and register the job *)

\* what the submission call of a handler gives: Exc when it raises, else the decoded
\* answer of the provider
SubmitResults ==
    {Exc} \cup
    { VDict([code |-> c, msg |-> VStr("m"), data |-> d]) :
        c \in {Absent, VInt(200), VInt(402), VStr("200")},
        d \in {Absent, None, EmptyDict} \cup
              { VDict([taskId |-> x]) : x \in {None, VStr(""), VStr("t1"), VStr("t2")} } }

ShortVideoModels == {"sora2", "veo3_fast"}

\* a handler that takes the taskId whatever the code of the answer
accepted_task_id_any_code(result) ==
    IF IsExc(result) THEN Exc
    ELSE LET data == get(result, "data", EmptyDict)
         IN  IF ~IsDict(data) THEN Exc
             ELSE IF ~Truthy(get(data, "taskId", None)) THEN Exc
             ELSE get(data, "taskId", None)

\* short_video.py lines 235-240, avatar_video.py lines 846-851: the taskId of the
\* answer, Exc when the statements raise (code != 200, data no dict, no taskId) or
\* the submission call has raised
accepted_task_id(result) ==
    IF IsExc(result) THEN Exc
    ELSE IF ~EqInt(get(result, "code", None), 200) THEN Exc
    ELSE LET data == get(result, "data", EmptyDict)
         IN  IF ~IsDict(data) THEN Exc
             ELSE IF ~Truthy(get(data, "taskId", None)) THEN Exc
             ELSE get(data, "taskId", None)

\* the try block of a handler, from the submission call to add_task: the job is
\* registered when no statement raised; except Exception (short_video.py line 267,
\* avatar_video.py line 878) answers the user and raises nothing
Submit(handler, model, result, subtitles_data) ==
    LET task_id == accepted_task_id(result)
    IN  /\ next_uid <= MaxTasks
        /\ IF IsExc(task_id)
           THEN UNCHANGED <<tasks, replaced, next_uid>>
           ELSE Register(VideoTask(next_uid, task_id.s, model, now, subtitles_data))
        /\ call' = [op |-> handler, task_id |-> IF IsExc(task_id) THEN "" ELSE task_id.s,
                    found |-> ~IsExc(task_id), raised |-> "none"]
        /\ UNCHANGED <<bot, pc, tasks_to_check, idx, note, now, notified, removed,
                       overdue, parserVars, authVars, loops, launches>>

\* short_video.select_aspect_and_generate, lines 216-269
select_aspect_and_generate(model, result) ==
    Submit("select_aspect_and_generate", model, result, FALSE)

\* avatar_video.process_orientation_and_generate, lines 837-881
process_orientation_and_generate_try(result, add_subtitles) ==
    Submit("process_orientation_and_generate", "kling_motion", result, add_subtitles)

NextSubmit ==
    \/ \E m \in ShortVideoModels, r \in SubmitResults : select_aspect_and_generate(m, r)
    \/ \E r \in SubmitResults, subs \in BOOLEAN : process_orientation_and_generate_try(r, subs)
    \/ AdvanceClock

SpecSubmit == Init /\ [][NextSubmit]_vars

----------------------------------------------------------------------------
(* The registry as the handlers and the poller call it, without the loop *)

\* TaskTracker.remove_task(task_id), called on any registry
remove_call(task_id) ==
    /\ tasks' = remove_task(tasks, task_id)
    /\ call' = [op |-> "remove_task", task_id |-> task_id,
                found |-> contains(tasks, task_id),
                raised |-> remove_task_raised(tasks, task_id)]
    /\ UNCHANGED <<bot, pc, tasks_to_check, idx, note, now, next_uid, notified, removed,
                   replaced, overdue, parserVars, authVars, loops, launches>>

\* task_tracker.tasks[task_id].subtitles_data = {...}, executed on any registry
attach_call(task_id) ==
    /\ tasks' = set_subtitles_data(tasks, task_id, TRUE).tasks
    /\ call' = [op |-> "attach", task_id |-> task_id,
                found |-> contains(tasks, task_id),
                raised |-> set_subtitles_data(tasks, task_id, TRUE).raised]
    /\ UNCHANGED <<bot, pc, tasks_to_check, idx, note, now, next_uid, notified, removed,
                   replaced, overdue, parserVars, authVars, loops, launches>>

NextReg ==
    \/ \E id \in TaskIds, m \in SubmitModels : AddTask(id, m)
    \/ \E id \in TaskIds, subs \in BOOLEAN : process_orientation_and_generate(id, subs)
    \/ \E id \in TaskIds : remove_call(id)
    \/ \E id \in TaskIds : attach_call(id)

SpecReg == Init /\ [][NextReg]_vars

----------------------------------------------------------------------------
(* The parsers applied to every response of the domain *)

InitNorm ==
    /\ tasks = <<>>
    /\ bot = FALSE
    /\ pc = "none"
    /\ tasks_to_check = <<>>
    /\ idx = 0
    /\ note = NoNote
    /\ now = 0
    /\ next_uid = 1
    /\ notified = [u \in 1..MaxTasks |-> <<>>]
    /\ removed = {}
    /\ replaced = {}
    /\ overdue = {}
    /\ n_model \in Models
    /\ n_resp \in Responses(n_model)
    /\ n_res = NotParsed
    /\ loops = 0
    /\ launches = 0
    /\ call = NoCall
    /\ NoAccessList

\* _parse_status(task, response)
parse_status ==
    /\ n_res = NotParsed
    /\ n_res' = _parse_status(n_model, n_resp)
    /\ UNCHANGED <<n_model, n_resp, trackerVars, authVars>>

NextNorm == parse_status

SpecNorm == InitNorm /\ [][NextNorm]_vars

----------------------------------------------------------------------------
(* The loop polling one job, over every response of the domain *)

\* bot set, loop started, one job registered, and the first tick at its status
\* request, which n_resp is the answer to
InitPoll ==
    /\ n_model \in Models
    /\ n_resp \in Responses(n_model)
    /\ n_res = NotParsed
    /\ tasks = <<VideoTask(1, "t1", n_model, 0, FALSE)>>
    /\ bot = TRUE
    /\ pc = "check"
    /\ tasks_to_check = tasks
    /\ idx = 1
    /\ note = NoNote
    /\ now = 0
    /\ next_uid = 2
    /\ notified = [u \in 1..MaxTasks |-> <<>>]
    /\ removed = {}
    /\ replaced = {}
    /\ overdue = {}
    /\ loops = 1
    /\ launches = 1
    /\ call = [op |-> "start_polling", task_id |-> "", found |-> FALSE, raised |-> "none"]
    /\ NoAccessList

\* the status request of the job returns n_resp
check_recorded == check_response(n_resp)

NextPoll ==
    \/ check_recorded
    \/ \E sent \in BOOLEAN : notify_return(sent)
    \/ notify_fallback_return
    \/ sleep3_return
    \/ sleep10_return
    \/ poll_wake

SpecPoll == InitPoll /\ [][NextPoll]_vars

----------------------------------------------------------------------------
(* The access middleware, over the environment values of the domain *)

EventKinds == {"Message", "CallbackQuery"}

\* the process starts with some ALLOWED_USER_IDS in its environment; config = Config()
\* runs __post_init__ when the module is imported
InitAuth ==
    /\ tasks = <<>>
    /\ bot = FALSE
    /\ pc = "none"
    /\ tasks_to_check = <<>>
    /\ idx = 0
    /\ note = NoNote
    /\ now = 0
    /\ next_uid = 1
    /\ notified = [u \in 1..MaxTasks |-> <<>>]
    /\ removed = {}
    /\ replaced = {}
    /\ overdue = {}
    /\ n_model = "sora2"
    /\ n_resp = EmptyDict
    /\ n_res = NotParsed
    /\ loops = 0
    /\ launches = 0
    /\ call = NoCall
    /\ allowed_ids_str \in EnvValues
    /\ ALLOWED_USER_IDS = post_init(allowed_ids_str)
    /\ event = NoEvent
    /\ answer = NoAnswer

\* the handler is awaited
Reached == [handler |-> TRUE, text |-> "none", raised |-> "none"]

\* the event is answered with the refusal, or the answer's request fails
Denied(kind, sent) ==
    IF ~sent THEN [handler |-> FALSE, text |-> "none", raised |-> "TelegramAPIError"]
    ELSE [handler |-> FALSE, raised |-> "none",
          text |-> IF kind = "Message" THEN "access denied (message)"
                                       ELSE "access denied (alert)"]

\* AuthMiddleware.__call__, lines 9-39, for an event of the kind from the user
\* (NoUser: an event without from_user)
AuthMiddleware(kind, from_user, sent) ==
    /\ event' = [kind |-> kind, from_user |-> from_user]
    /\ answer' =
          IF from_user = NoUser
          THEN [handler |-> FALSE, text |-> "none", raised |-> "AttributeError"]
          ELSE IF ALLOWED_USER_IDS = <<>> THEN Reached
          ELSE IF ~is_user_allowed(ALLOWED_USER_IDS, from_user) THEN Denied(kind, sent)
          ELSE Reached
    /\ UNCHANGED <<allowed_ids_str, ALLOWED_USER_IDS, trackerVars, parserVars>>

NextAuth ==
    \E kind \in EventKinds, from_user \in UserIds \cup {NoUser}, sent \in BOOLEAN :
        AuthMiddleware(kind, from_user, sent)

SpecAuth == InitAuth /\ [][NextAuth]_vars

----------------------------------------------------------------------------
(* Claims about the registry and the polling loop, checked under Spec *)

Created == 1..(next_uid - 1)
Delivered(u) == notified[u] # <<>>
InDelivery(u) ==
    pc \in {"notify", "notify_fallback"} /\ tasks_to_check[idx].uid = u
\* the jobs of the running tick's snapshot the loop has not reached yet
Ahead == { tasks_to_check[j].uid : j \in { k \in DOMAIN tasks_to_check : k > idx } }

\* C1: at most one terminal notification is ever attempted for a job, and once the
\* poller has delivered a job and executed remove_task for it, the job is neither in
\* the registry nor among the jobs a tick still has to process.
C1_AtMostOnceDelivery ==
    \A u \in 1..MaxTasks :
        /\ Len(notified[u]) <= 1
        /\ (Delivered(u) /\ ~InDelivery(u)) => (u \notin Registered /\ u \notin Ahead)
        /\ (u \in { r.uid : r \in removed }) => (u \notin Registered /\ u \notin Ahead)

\* C1 witness: a job was delivered and removed, and a later tick is polling another job
C1_Witness ==
    /\ pc = "check"
    /\ \E u \in Created : Delivered(u) /\ u \notin Registered /\ tasks_to_check[idx].uid > u

IsRegisteredId(id) == \E t \in Range(tasks) : t.task_id = id

Overwritten(id, uid, model, subs) ==
    /\ Len(tasks') = Len(tasks)
    /\ \A i \in DOMAIN tasks :
          IF tasks[i].task_id = id
          THEN tasks'[i] = VideoTask(uid, id, model, now, subs)
          ELSE tasks'[i] = tasks[i]
    /\ Cardinality({ i \in DOMAIN tasks' : tasks'[i].task_id = id }) = 1

C4_OverdueFinalizedByTick ==
    pc \in {"sleep30", "sleep10"} =>
        \A u \in overdue :
            /\ u \notin Registered
            /\ \E k \in DOMAIN notified[u] : notified[u][k].kind = "timeout"

\* C5: a tick that met an exception has no job of its snapshot left unprocessed.
C5_ErrorDoesNotStopTick ==
    pc = "sleep10" => idx = Len(tasks_to_check)

----------------------------------------------------------------------------
(* Claims about the parsers, checked under SpecNorm *)

Parsed == n_res # NotParsed

\* x[k] when x is a dict holding k, Absent otherwise
Field(x, k) == IF IsDict(x) THEN get(x, k, Absent) ELSE Absent
DataOf(resp) == Field(resp, "data")

SuccessStates == {"success", "completed", "done"}
FailureStates == {"failed", "fail", "error"}
Names(x, S) == IsStr(x) /\ Lower(x.s) \in S

\* the payload carries the provider's explicit success marker
SuccessMarker(model, resp) ==
    IF model = "heygen" THEN InStrs(Field(DataOf(resp), "status"), {"completed"})
    ELSE IF model \in VeoModels THEN EqInt(Field(DataOf(resp), "successFlag"), 1)
    ELSE \E k \in {"state", "status", "taskStatus"} :
            Names(Field(DataOf(resp), k), SuccessStates)

\* the payload carries the provider's explicit failure marker
FailureMarker(model, resp) ==
    IF model = "heygen" THEN InStrs(Field(DataOf(resp), "status"), {"failed"})
    ELSE IF model \in VeoModels
    THEN /\ EqInt(Field(DataOf(resp), "successFlag"), 0)
         /\ \/ Truthy(Field(DataOf(resp), "errorMessage"))
            \/ Truthy(Field(DataOf(resp), "errorCode"))
    ELSE \E k \in {"state", "status", "taskStatus"} :
            Names(Field(DataOf(resp), k), FailureStates)

\* the outer envelope signals an error: the dict of a failed gateway call, or, for the
\* two parsers that read the envelope, a code other than 200
EnvelopeError(model, resp) ==
    \/ HasKey(resp, "error")
    \/ model # "heygen" /\ ~EqInt(Field(resp, "code"), 200)

\* C6: a payload is classified completed only when it carries the success marker and
\* a non-empty result URL.
C6_CompletedNeedsMarkerAndUrl ==
    n_res.status = "completed" =>
        SuccessMarker(n_model, n_resp) /\ Truthy(n_res.video_url)

\* C6 as amended: a payload is classified completed only when it carries the success
\* marker; the Veo and Sora parsers moreover only with a non-empty result URL, while
\* the HeyGen parser returns completed with whatever data.video_url holds, or None.
C6_CompletedNeedsMarker ==
    n_res.status = "completed" =>
        /\ SuccessMarker(n_model, n_resp)
        /\ n_model # "heygen" => Truthy(n_res.video_url)
        /\ n_model = "heygen" => n_res.video_url = get(DataOf(n_resp), "video_url", None)

\* C6 witness: HeyGen status "completed" without video_url, parsed as completed
C6_Witness ==
    /\ n_model = "heygen"
    /\ n_res.status = "completed"
    /\ ~Truthy(n_res.video_url)

VeoInQueue(resp) ==
    \/ /\ EqInt(Field(resp, "code"), 422)
       /\ \/ Contains("record is null", Lower(py_str(get(resp, "msg", VStr(""))).s))
          \/ Contains("record status is not success",
                      Lower(py_str(get(resp, "msg", VStr(""))).s))
    \/ /\ EqInt(Field(resp, "code"), 200)
       /\ ~Truthy(get(resp, "data", EmptyDict))
    \/ /\ EqInt(Field(resp, "code"), 200)
       /\ EqInt(Field(DataOf(resp), "successFlag"), 0)
       /\ ~Truthy(Field(DataOf(resp), "errorMessage"))
       /\ ~Truthy(Field(DataOf(resp), "errorCode"))

\* C8: every answer recognized as still in queue or not yet successful is pending.
C8_InQueueIsPending ==
    (Parsed /\ n_model \in VeoModels /\ VeoInQueue(n_resp)) => n_res = Pending

\* C8 witness: code 422 with "Record status is NOT success", parsed as pending
C8_Witness ==
    /\ n_model = "veo3_fast"
    /\ EqInt(Field(n_resp, "code"), 422)
    /\ get(n_resp, "msg", None) = VStr("Record status is NOT success")
    /\ n_res = Pending

\* the payload has no usable data: the error dict, or data missing, null or no object
NoData(resp) == HasKey(resp, "error") \/ ~IsDict(DataOf(resp))

\* C9: the parser returns a status for every payload, and pending for every payload
\* without usable data.
C9_TotalAndConservative ==
    Parsed => (n_res.status # "raise" /\ (NoData(n_resp) => n_res = Pending))

\* first element of a non-empty list, None otherwise
At0(x) == IF x.t = "list" /\ x.q # <<>> THEN x.q[1] ELSE None

\* the places a result URL is known to be at, in the order of priority
Probes(model, data) ==
    IF model \in VeoModels
    THEN << At0(Field(Field(data, "response"), "resultUrls")),
            At0(Field(data, "resultUrls")) >>
    ELSE << IF IsStr(Field(data, "resultJson"))
            THEN At0(Field(json_loads(Field(data, "resultJson").s), "resultUrls"))
            ELSE None,
            At0(Field(Field(data, "resultJson"), "resultUrls")),
            Field(Field(data, "videoInfo"), "videoUrl"),
            Field(data, "videoUrl"),
            Field(data, "video_url"),
            Field(data, "url") >>

FirstNonEmpty(q) ==
    IF \E i \in DOMAIN q : Truthy(q[i])
    THEN q[CHOOSE i \in DOMAIN q : Truthy(q[i]) /\ \A j \in 1..(i - 1) : ~Truthy(q[j])]
    ELSE None

\* every container of a result URL is of the type the parser expects
LocatorsWellFormed(model, data) ==
    model \in VeoModels \/
        /\ Field(data, "videoInfo").t \in {"absent", "dict"}
        /\ IsStr(Field(data, "resultJson")) =>
              json_loads(Field(data, "resultJson").s).t \in {"JSONDecodeError", "dict"}

\* the parser reaches its success branch
SuccessBranch(model, resp) ==
    /\ EqInt(Field(resp, "code"), 200)
    /\ IsDict(DataOf(resp))
    /\ IF model \in VeoModels THEN SuccessMarker(model, resp)
       ELSE InStrs(sora_state(DataOf(resp)), SuccessStates)

----------------------------------------------------------------------------
(* Claims about one tick of the polling loop, checked under Spec *)

\* C11: when the status request of a job fails (check_task_status returns the error
\* dict), the job stays in the registry unchanged and nothing is notified or removed;
\* the tick goes on to the pacing sleep and from there to the next job of its
\* snapshot; and the job is polled again in the next tick: a failed request leaves
\* the job exactly as a pending one, and a tick ends only behind the last job of the
\* snapshot it took.
C11_GatewayFailureIsTransient ==
    [][ /\ check_response(ErrorDict) =>
              /\ tasks' = tasks
              /\ notified' = notified
              /\ removed' = removed
              /\ pc' = "sleep3"
              /\ tasks_to_check' = tasks_to_check
              /\ idx' = idx
        /\ sleep3_return =>
              IF idx < Len(tasks_to_check)
              THEN tasks_to_check' = tasks_to_check /\ idx' = idx + 1
              ELSE pc' = "sleep30"
        /\ (tasks_to_check # <<>> /\ tasks_to_check' = <<>>) =>
              idx = Len(tasks_to_check) ]_vars

\* the poller is inside a terminal branch of the job its loop is at
InBranch == pc \in {"notify", "notify_fallback"}
\* the step that ends the terminal branch the poller is in
BranchEnds == InBranch /\ pc' # "notify_fallback" /\ (pc' = pc => idx' # idx)
\* no job of that id is in the registry after the step
AbsentAfter(task_id) == \A i \in DOMAIN tasks' : tasks'[i].task_id # task_id

\* C12: in the tick in which the status of a job is parsed as completed with a URL,
\* the success notification is invoked for that job with that URL, and in the tick in
\* which it is parsed as failed the failure notification is invoked with the parsed
\* reason; the job is removed before the tick goes on. A status parsed as pending
\* leaves the job registered.
C12_TerminalStatusDeliveredInTick ==
    [][ /\ pc = "check" =>
              \A response \in PollResponses(tasks_to_check[idx].model) :
                  LET task == tasks_to_check[idx]
                      res == _parse_status(task.model, response)
                  IN  check_response(response) =>
                      /\ (res.status = "completed" /\ Truthy(res.video_url)) =>
                            /\ pc' = "notify"
                            /\ note' = [kind |-> "success", arg |-> res.video_url]
                            /\ notified'[task.uid] = Append(notified[task.uid], note')
                      /\ res.status = "failed" =>
                            /\ pc' = "notify"
                            /\ note' = [kind |-> "failure", arg |-> res.error]
                            /\ notified'[task.uid] = Append(notified[task.uid], note')
                      /\ res.status = "pending" => tasks' = tasks /\ notified' = notified
        /\ (BranchEnds /\ note.kind \in {"success", "failure"}) =>
              /\ AbsentAfter(tasks_to_check[idx].task_id)
              /\ tasks_to_check' = tasks_to_check
              /\ idx' = idx ]_vars

\* C13: a terminal branch (success, failure, timeout) ends with remove_task even when
\* the notifier's send raises: a failed send of a failure or timeout message is
\* swallowed and the job removed; a failed send_video falls back to send_message
\* inside the same branch, and whether that one returns or raises the job is removed;
\* the loop does not take the except branch; and a job whose branch has ended is never
\* notified again.
C13_BranchRemovesWhenNotifierFails ==
    [][ /\ (notify_return(FALSE) /\ note.kind # "success") =>
              AbsentAfter(tasks_to_check[idx].task_id)
        /\ (notify_return(FALSE) /\ note.kind = "success") =>
              /\ pc' = "notify_fallback"
              /\ UNCHANGED <<tasks, notified, tasks_to_check, idx>>
        /\ notify_fallback_return => AbsentAfter(tasks_to_check[idx].task_id)
        /\ InBranch => pc' # "sleep10"
        /\ \A u \in Created :
              (Delivered(u) /\ ~InDelivery(u)) => notified'[u] = notified[u] ]_vars

\* C13 witness: send_video has failed for a job that is still registered and the
\* fallback is in flight, after an earlier job was notified and removed
C13_Witness ==
    /\ pc = "notify_fallback"
    /\ tasks_to_check[idx].uid \in Registered
    /\ \E u \in Created : Delivered(u) /\ ~InDelivery(u) /\ u \notin Registered

----------------------------------------------------------------------------
(* Claims about calls on the registry, checked under SpecReg *)

\* C15: attaching subtitles_data through an id that is not in the registry raises
\* KeyError and changes nothing: the registry holds the same jobs, in the same order,
\* with the same fields.
C15_AttachToAbsentRaises ==
    [][ \A id \in TaskIds :
            (attach_call(id) /\ ~contains(tasks, id)) =>
                (call'.raised = "KeyError" /\ tasks' = tasks) ]_vars

\* C15 witness: the attachment was tried on an id the non-empty registry did not hold
C15_Witness ==
    /\ call.op = "attach"
    /\ ~call.found
    /\ call.raised = "KeyError"
    /\ tasks # <<>>
    /\ ~contains(tasks, call.task_id)

\* C18: remove_task raises nothing, whether the id is registered or not; for an id
\* that is not registered it leaves the registry as it is; and a second remove_task
\* of the same id changes nothing more and raises nothing either.
C18_RemoveIsIdempotent ==
    [][ \A id \in TaskIds :
            remove_call(id) =>
                /\ call'.raised = "none"
                /\ ~contains(tasks, id) => tasks' = tasks
                /\ ~contains(tasks', id)
                /\ remove_task(tasks', id) = tasks'
                /\ remove_task_raised(tasks', id) = "none" ]_vars

\* C18 witness: remove_task was called with an id the non-empty registry did not hold
C18_Witness ==
    /\ call.op = "remove_task"
    /\ ~call.found
    /\ call.raised = "none"
    /\ tasks # <<>>

----------------------------------------------------------------------------
(* Claims about start_polling and stop_polling, checked under SpecLife *)

\* stop_polling has cancelled the poll_tasks task and start_polling has created no
\* other one since
Stopped == pc \in {"cancelling", "done"}

\* C16: whatever the sequence of start_polling and stop_polling calls, at most one
\* poll_tasks coroutine exists at any time: exactly one while the task start_polling
\* created has not ended, none otherwise. A start_polling call made while the task
\* has not ended creates nothing.
C16_AtMostOneLoop ==
    /\ loops <= 1
    /\ loops = (IF pc \in Live THEN 1 ELSE 0)

\* C16 witness: a loop is running that start_polling created after an earlier loop
\* was cancelled in the middle of a delivery (the delivered job is still registered)
C16_Witness ==
    /\ loops = 1
    /\ launches = 2
    /\ pc \in Live \ {"cancelling"}
    /\ \E u \in Created : Delivered(u) /\ ~InDelivery(u) /\ u \in Registered

\* C19: once stop_polling has cancelled the task, the loop takes no further step: no
\* snapshot is taken, no job is polled, notified or removed by the poller, until a
\* start_polling call creates a new task, which it does only when the cancelled one
\* has ended.
C19_NoTickAfterStop ==
    [][ Stopped =>
          /\ notified' = notified
          /\ removed' = removed
          /\ tasks_to_check' \in {tasks_to_check, <<>>}
          /\ \/ pc' \in {"cancelling", "done"}
             \/ pc = "done" /\ pc' = "sleep30" /\ launches' = launches + 1 ]_vars

\* C19 witness: the loop has ended after stop_polling while the bot is set and a
\* registered job is past its timeout
C19_Witness ==
    /\ pc = "done"
    /\ bot
    /\ \E t \in Range(tasks) : timed_out(t, now)

\* the steps of a loop that no exception ends: the task ends only by the
\* cancellation stop_polling requested; an exception that reaches the except branch
\* is followed by the sleep of the next iteration; a failed send stays in its branch
C20_OnlyStopEndsLoopStep ==
    [][ /\ (pc \in Live /\ pc' \notin Live) => pc = "cancelling"
        /\ loops' < loops => pc = "cancelling"
        /\ pc = "sleep10" => pc' \in {"sleep10", "sleep30", "cancelling"}
        /\ (pc = "check" /\ pc' # "cancelling") =>
              pc' \in {"check", "sleep3", "notify", "sleep10"}
        /\ (InBranch /\ pc' # "cancelling") =>
              pc' \in {"notify", "notify_fallback", "sleep3", "check", "sleep30"} ]_vars

\* C20: no exception raised inside a tick (by the status request, a parser or a send)
\* ends the loop, only stop_polling does; and after an exception has reached the
\* except branch the loop comes to the sleep of its next iteration, unless
\* stop_polling is called first.
C20_OnlyStopEndsLoop ==
    /\ C20_OnlyStopEndsLoopStep
    /\ (pc = "sleep10") ~> (pc = "sleep30" \/ Stopped)

\* C20 witness: an exception raised while a job was handled has reached the except
\* branch in a loop that start_polling created after an earlier one was stopped, and
\* that loop is alive
C20_Witness ==
    /\ pc = "sleep10"
    /\ loops = 1
    /\ launches = 2
    /\ tasks_to_check # <<>>

\* the task objects of the snapshot the running tick took
InSnapshot == { tasks_to_check[i].uid : i \in DOMAIN tasks_to_check }

\* C17: the tick works on the list it took from the registry when it began. A job
\* registered (with or without subtitles_data) while the tick is suspended leaves the
\* tick's list, position and pending notification as they are and is not in that
\* list; the list a tick takes holds every job registered at that moment, in registry
\* order; and the tick goes through its list one job after the other, from the first
\* to the last, before it ends.
C17_TickIteratesSnapshot ==
    [][ /\ \A id \in TaskIds :
              \/ \E m \in SubmitModels : AddTask(id, m)
              \/ \E subs \in BOOLEAN : process_orientation_and_generate(id, subs)
              => /\ UNCHANGED <<pc, tasks_to_check, idx, note, notified>>
                 /\ next_uid \notin InSnapshot
                 /\ next_uid \in Registered'
        /\ (pc = "sleep30" /\ tasks_to_check' # <<>>) =>
              (tasks_to_check' = tasks /\ idx' = 1)
        /\ tasks_to_check # <<>> =>
              \/ tasks_to_check' = tasks_to_check /\ idx' \in {idx, idx + 1}
              \/ tasks_to_check' = <<>> /\ idx = Len(tasks_to_check) ]_vars

----------------------------------------------------------------------------
(* Claims about restarting the poller, checked under SpecLifeFair *)

\* a poll_tasks task exists that has not been cancelled
Running == pc \in Live \ {"cancelling"}

\* C21: once start_polling has been called, a poll_tasks task comes to run, unless
\* stop_polling is called again; this includes the start_polling call that follows
\* a stop_polling call at once, before the cancelled task has ended.
C21_StartAfterStopResumes ==
    (call.op = "start_polling") ~> (Running \/ call.op = "stop_polling")

----------------------------------------------------------------------------
(* Claims about the poller left running, checked under SpecRunFair *)

\* C22: with the bot set and the loop started, every registered job leaves the
\* registry in the end, whatever the status requests return: answers a parser raises
\* on, requests that fail every time, answers that never become terminal.
C22_EveryJobLeaves ==
    \A u \in 1..FairTasks :
        (u \in Registered /\ bot /\ pc # "none") ~> (u \notin Registered)

\* C22 witness: the second job of a snapshot is being notified of its timeout after
\* the first one was removed on its timeout, neither having had any other notification
C22_Witness ==
    /\ pc = "notify"
    /\ note.kind = "timeout"
    /\ idx = 2
    /\ tasks_to_check[1].uid \notin Registered
    /\ Len(notified[tasks_to_check[1].uid]) = 1
    /\ Len(notified[tasks_to_check[2].uid]) = 1

----------------------------------------------------------------------------
(* Claims about what a tick does for one job, checked under Spec *)

\* C23: when the status of a job is parsed as pending, or the status request failed,
\* the tick does nothing for the job: the registry and the job's fields stay as they
\* are, nothing is sent and nothing removed, and the loop goes to its pacing sleep.
\* The only messages the poller ever sends are the three terminal ones.
C23_PendingDoesNothing ==
    [][ /\ pc = "check" =>
              \A response \in PollResponses(tasks_to_check[idx].model) :
                  LET res == _parse_status(tasks_to_check[idx].model, response)
                  IN  (check_response(response) /\ (res = Pending \/ response = ErrorDict)) =>
                          /\ tasks' = tasks
                          /\ tasks_to_check' = tasks_to_check
                          /\ notified' = notified
                          /\ note' = NoNote
                          /\ removed' = removed
                          /\ pc' = "sleep3"
        /\ \A u \in 1..MaxTasks : \A k \in DOMAIN notified'[u] :
              notified'[u][k].kind \in {"success", "failure", "timeout"} ]_vars

\* C23 witness: the second job of a snapshot, a Veo one, was polled as pending (the
\* Veo answers are terminal or pending) and is registered and not notified, at the
\* pacing sleep
C23_Witness ==
    /\ pc = "sleep3"
    /\ idx = 2
    /\ tasks_to_check[idx].model \in VeoModels
    /\ tasks_to_check[idx] \in Range(tasks)
    /\ ~Delivered(tasks_to_check[idx].uid)

\* the step in which the loop of a tick comes to a job of its snapshot
ReachesJob == idx' # idx /\ idx' # 0
\* some notification of that kind was attempted for the job
Told(q, kind) == \E k \in DOMAIN q : q[k].kind = kind

\* C24: a job that is more than 30 minutes old when the loop of a tick comes to it
\* gets the timeout message and no status request: the loop goes from the timeout
\* branch to the next job of the snapshot. A job that got the timeout message got no
\* other message, before or after.
C24_TimeoutOnlyAndNoPoll ==
    [][ /\ (ReachesJob /\ now - tasks_to_check'[idx'].created_at > TimeoutMinutes) =>
              /\ pc' = "notify"
              /\ note' = [kind |-> "timeout", arg |-> None]
        /\ (InBranch /\ note.kind = "timeout" /\ idx' = idx) => pc' = "notify"
        /\ \A u \in 1..MaxTasks :
              Told(notified'[u], "timeout") => Len(notified'[u]) = 1 ]_vars

\* C24 witness: a job was told of its timeout and removed, and the same tick is
\* polling the next job of its snapshot
C24_Witness ==
    /\ pc = "check"
    /\ idx > 1
    /\ notified[tasks_to_check[idx - 1].uid] = <<[kind |-> "timeout", arg |-> None]>>
    /\ tasks_to_check[idx - 1].uid \notin Registered

\* the time the loop gives a job of that model: the greatest age at which the timeout
\* test of the loop is still false
Budget(model) ==
    CHOOSE a \in 0..MaxNow :
        /\ ~timed_out(VideoTask(0, "t1", model, 0, FALSE), a)
        /\ timed_out(VideoTask(0, "t1", model, 0, FALSE), a + 1)

\* the time given to each model
Budgets == [m \in Models |-> Budget(m)]

\* C25: the time a job is given depends on its model, some models being given more
\* than others, and a job is told of its timeout only when it is older than the time
\* its model is given.
C25_BudgetByKind ==
    /\ \E m1, m2 \in Models : Budgets[m1] < Budgets[m2]
    /\ (pc = "notify" /\ note.kind = "timeout") =>
          now - tasks_to_check[idx].created_at > Budgets[tasks_to_check[idx].model]

\* C25 as amended: the time a job is given is 30 minutes whatever its model, and a job
\* is told of its timeout only when it is more than 30 minutes old.
C25_OneBudget ==
    /\ \A m \in Models : Budgets[m] = TimeoutMinutes
    /\ (pc = "notify" /\ note.kind = "timeout") =>
          now - tasks_to_check[idx].created_at > TimeoutMinutes

\* C25 witness: two jobs of different models submitted at the same time are told of
\* their timeout in the same tick
C25_Witness ==
    /\ pc = "notify"
    /\ note.kind = "timeout"
    /\ idx = 2
    /\ tasks_to_check[1].model # tasks_to_check[2].model
    /\ tasks_to_check[1].created_at = tasks_to_check[2].created_at
    /\ Told(notified[tasks_to_check[1].uid], "timeout")

----------------------------------------------------------------------------
(* Claims about add_task followed by the attachment, checked under SpecAttach *)

\* the job process_orientation_and_generate has just registered
JustAdded == next_uid - 1

\* C26: between the handler's add_task and its assignment of subtitles_data no step
\* of the poller is taken: while the handler is between the two, the job it added is
\* in no snapshot and has had no notification, and the only step taken is the
\* assignment; after it the registered job carries the subtitles_data, or none when
\* none was to be attached, and only then can the poller come to it.
C26_AttachIsAtomic ==
    [][ /\ call.op = "add_task" =>
              /\ UNCHANGED <<pc, tasks_to_check, idx, note, notified, removed>>
              /\ JustAdded \notin InSnapshot
              /\ ~Delivered(JustAdded)
        /\ generate_attach =>
              /\ call'.raised = "none"
              /\ \E i \in DOMAIN tasks' :
                    /\ tasks'[i].uid = JustAdded
                    /\ tasks'[i].task_id = call.task_id
                    /\ tasks'[i].subtitles_data = call.found
        /\ \A i \in DOMAIN tasks_to_check' :
              tasks_to_check'[i].uid = JustAdded => call.op # "add_task" ]_vars

\* C26 witness: the poller has in its snapshot a job that was registered while a tick
\* was suspended and got its subtitles_data
C26_Witness ==
    /\ pc = "check"
    /\ idx = 1
    /\ call.op = "attach"
    /\ call.found
    /\ tasks_to_check[idx].uid = JustAdded
    /\ tasks_to_check[idx].subtitles_data
    /\ Delivered(1)

----------------------------------------------------------------------------
(* Claims about the success branch, checked under Spec *)

\* C27: when the success message of a job that carries subtitles_data is sent, the
\* post-processing has been called for that job before, with the result URL the
\* message carries; for a job without subtitles_data it is not called.
C27_PostProcessBeforeSuccess ==
    /\ (InBranch /\ note.kind = "success" /\ tasks_to_check[idx].subtitles_data) =>
          \E k \in DOMAIN notified[tasks_to_check[idx].uid] :
              notified[tasks_to_check[idx].uid][k] = [kind |-> "postprocess", arg |-> note.arg]
    /\ (InBranch /\ ~tasks_to_check[idx].subtitles_data) =>
          ~Told(notified[tasks_to_check[idx].uid], "postprocess")

----------------------------------------------------------------------------
(* Claims about one status request, checked under SpecPoll *)

\* the payload holds no result URL at any place the provider is known to put one
NoUrl(model, resp) ==
    IF model = "heygen" THEN ~Truthy(Field(DataOf(resp), "video_url"))
    ELSE ~Truthy(FirstNonEmpty(Probes(model, DataOf(resp))))

\* the payload carries the success marker, no failure marker beside it, and no URL
MarkedWithoutUrl(model, resp) ==
    SuccessMarker(model, resp) /\ ~FailureMarker(model, resp) /\ NoUrl(model, resp)

\* C28: every success message carries a non-empty URL; when the answer carries the
\* success marker and no URL (whatever the model, HeyGen's completed without
\* video_url included), the tick sends nothing and removes nothing, and the job stays
\* registered for the next tick.
C28_SuccessNeedsUrl ==
    [][ /\ (check_recorded /\ MarkedWithoutUrl(n_model, n_resp)) =>
              /\ tasks' = tasks
              /\ notified' = notified
              /\ removed' = removed
              /\ pc' \in {"sleep3", "sleep10"}
        /\ \A u \in 1..MaxTasks : \A k \in DOMAIN notified'[u] :
              notified'[u][k].kind = "success" => Truthy(notified'[u][k].arg) ]_vars

\* C28 witness: the HeyGen answer was completed without a URL, and the job is being
\* polled again in the next tick, registered and without any message
C28_Witness ==
    /\ n_model = "heygen"
    /\ MarkedWithoutUrl(n_model, n_resp)
    /\ pc = "sleep3"
    /\ tasks_to_check = tasks
    /\ tasks # <<>>
    /\ notified[1] = <<>>

\* the reason the provider gives in the payload: Veo errorMessage, else errorCode;
\* Sora failMsg, else errorMessage, else error; HeyGen error
ProviderReason(model, data) ==
    IF model = "heygen" THEN Field(data, "error")
    ELSE IF model \in VeoModels
    THEN Or(Field(data, "errorMessage"), Field(data, "errorCode"))
    ELSE Or(Or(Field(data, "failMsg"), Field(data, "errorMessage")), Field(data, "error"))

\* the text the tracker itself supplies
DefaultReason == VStr("Generation failed")

\* C30: the reason of every failure message is the reason the provider gives in the
\* payload (as it is, or as its string), never a text of the tracker's own.
C30_ReasonIsProviders ==
    note.kind = "failure" =>
        /\ Truthy(ProviderReason(n_model, DataOf(n_resp)))
        /\ note.arg \in { ProviderReason(n_model, DataOf(n_resp)),
                          py_str(ProviderReason(n_model, DataOf(n_resp))) }

\* the reason the failure message of the payload carries
ReasonSent(model, data) ==
    IF model = "heygen"
    THEN IF HasKey(data, "error") THEN Field(data, "error") ELSE DefaultReason
    ELSE IF model \in VeoModels THEN py_str(ProviderReason(model, data))
    ELSE IF Truthy(ProviderReason(model, data)) THEN ProviderReason(model, data)
    ELSE DefaultReason

\* C30 as amended: the reason of every failure message is the reason the provider
\* gives in the payload when it gives one (Veo's as its string); for a Sora payload
\* without failMsg, errorMessage and error, and for a HeyGen payload without the key
\* error, it is the tracker's own text "Generation failed". It is never empty, and it
\* is the reason recorded for the job.
C30_ReasonOrDefault ==
    note.kind = "failure" =>
        /\ note.arg = ReasonSent(n_model, DataOf(n_resp))
        /\ Truthy(note.arg)
        /\ notified[1] = <<note>>

\* C30 witness: a Sora payload names a failure state and gives no reason, and the
\* failure message is being sent with the tracker's own text
C30_Witness ==
    /\ n_model = "sora2"
    /\ ~Truthy(ProviderReason(n_model, DataOf(n_resp)))
    /\ pc = "notify"
    /\ note = [kind |-> "failure", arg |-> DefaultReason]

----------------------------------------------------------------------------
(* Claims about the submitting handlers, checked under SpecSubmit *)

\* the provider accepted the request: the call returned, with code 200 and a taskId
Accepted(result) ==
    /\ IsDict(result)
    /\ EqInt(Field(result, "code"), 200)
    /\ Truthy(Field(DataOf(result), "taskId"))

\* what a handler run leaves: the job of the returned taskId registered, created now,
\* when the provider accepted; the registry as it was when it did not
RegistersIffAccepted(model, result, subs) ==
    IF Accepted(result)
    THEN /\ tasks' = add_task(tasks, VideoTask(next_uid, Field(DataOf(result), "taskId").s,
                                              model, now, subs))
         /\ call'.found
    ELSE /\ tasks' = tasks
         /\ next_uid' = next_uid
         /\ ~call'.found

\* C29: a handler registers a job only when the provider accepted the request and
\* returned a job id: when the answer has a code other than 200 or no taskId, or the
\* submission call raises, add_task is not called and the registry stays as it was;
\* the registry changes only in a handler run whose submission was accepted.
C29_RegisteredOnlyWhenAccepted ==
    [][ /\ \A m \in ShortVideoModels, r \in SubmitResults :
              select_aspect_and_generate(m, r) => RegistersIffAccepted(m, r, FALSE)
        /\ \A r \in SubmitResults, subs \in BOOLEAN :
              process_orientation_and_generate_try(r, subs) =>
                  RegistersIffAccepted("kling_motion", r, subs)
        /\ tasks' # tasks => call'.found ]_vars

\* C29 witness: a submission was not accepted, with jobs of earlier submissions in the
\* registry
C29_Witness ==
    /\ call.op = "select_aspect_and_generate"
    /\ ~call.found
    /\ Len(tasks) = 2

----------------------------------------------------------------------------
(* Claims about the poller before set_bot, checked under Spec *)

\* the poller is between ticks (or was never started) and holds no snapshot
BetweenTicks == pc \in {"none", "sleep30"} /\ tasks_to_check = <<>> /\ idx = 0

\* the poller has sent nothing and removed nothing so far
Untouched == removed = {} /\ \A u \in 1..MaxTasks : notified[u] = <<>>

\* C33: while no bot has been set the poller stays between ticks: it never stands at
\* a status request or at a send, it has sent nothing and removed nothing, also when
\* a registered job is past its timeout; and as long as the poller has sent and
\* removed nothing, every job object submitted is still in the registry, or was
\* overwritten by a later job submitted under the same task_id.
C33_NoBotNoTick ==
    /\ ~bot => (BetweenTicks /\ Untouched)
    /\ Untouched => (Created \subseteq (Registered \cup replaced))

\* C33 witness: no bot is set, the poller sleeps between ticks, and two jobs are
\* registered, one of them past its timeout
C33_Witness ==
    /\ ~bot
    /\ pc = "sleep30"
    /\ Len(tasks) = 2
    /\ \E t \in Range(tasks) : timed_out(t, now)

----------------------------------------------------------------------------
(* Claims about the choice of gateway and parser, checked under SpecNorm *)

\* C32: the response a job's status request returns comes from the endpoint of the
\* job's provider family and is classified by the parser of the same family: HeyGen's
\* endpoint and _parse_heygen_status for "heygen", the Veo endpoint and
\* _parse_veo_status for "veo3" and "veo3_fast", the unified record endpoint and
\* _parse_sora_status for every other model.
C32_GatewayAndParserOfOneFamily ==
    /\ IF n_model = "heygen"
       THEN n_resp \in HeygenResponses
       ELSE IF n_model \in {"veo3", "veo3_fast"}
       THEN n_resp \in VeoResponses
       ELSE n_resp \in SoraResponses
    /\ Parsed =>
        IF n_model = "heygen"
        THEN n_res = _parse_heygen_status(n_resp)
        ELSE IF n_model \in {"veo3", "veo3_fast"}
        THEN n_res = _parse_veo_status(n_resp)
        ELSE n_res = _parse_sora_status(n_resp)

\* C32 witness: a "kling_motion" job's record from the unified endpoint was classified
\* as completed, where the Veo and HeyGen parsers would have left it pending
C32_Witness ==
    /\ Parsed
    /\ n_model = "kling_motion"
    /\ n_res.status = "completed"
    /\ _parse_veo_status(n_resp).status # "completed"
    /\ _parse_heygen_status(n_resp).status # "completed"

----------------------------------------------------------------------------
(* Claims about what a tick remembers, checked under SpecRunFair *)

\* the stored fields of every task object of q hold the defaults of the dataclass
FieldsAtDefault(q) ==
    \A i \in DOMAIN q :
        q[i].status = "pending" /\ q[i].result_url = None /\ q[i].error = None

\* where a response for a job of the model sends the loop, and what the loop sends
Decision(model, response) ==
    LET res == _parse_status(model, response)
    IN  IF res.status = "raise" THEN [pc |-> "sleep10", note |-> NoNote]
        ELSE IF res.status = "completed" /\ Truthy(res.video_url)
        THEN [pc |-> "notify", note |-> [kind |-> "success", arg |-> res.video_url]]
        ELSE IF res.status = "failed" /\ Truthy(res.error)
        THEN [pc |-> "notify", note |-> [kind |-> "failure", arg |-> res.error]]
        ELSE [pc |-> "sleep3", note |-> NoNote]

\* the notifications attempted once the decision d was taken for the task object
NotifiedAfter(task, d) ==
    IF d.note = NoNote THEN notified
    ELSE [notified EXCEPT ![task.uid] = Append(@, d.note)]

\* the step took the decision the response r determines for the task object
Took(task, r) ==
    /\ pc' = Decision(task.model, r).pc
    /\ note' = Decision(task.model, r).note
    /\ notified' = NotifiedAfter(task, Decision(task.model, r))

\* C31: no step changes the status, result_url or error of a task object, registered
\* or in a tick's snapshot, from the defaults; and whenever the loop waits for a
\* job's status response, whatever earlier ticks received for the job, the step taken
\* on a response is the one that response and the job's model determine, and every
\* step that leaves the wait is the one some response of the endpoint determines.
C31_StatusNeverCached ==
    [][ /\ FieldsAtDefault(tasks')
        /\ FieldsAtDefault(tasks_to_check')
        /\ pc = "check" =>
            /\ \A r \in PollResponses(tasks_to_check[idx].model) :
                    check_response(r) => Took(tasks_to_check[idx], r)
            /\ pc' # "check" =>
                    \E r \in PollResponses(tasks_to_check[idx].model) :
                        Took(tasks_to_check[idx], r) ]_vars

\* C31 witness: after an earlier tick delivered and removed a job, a tick is sending
\* the success message for another job, which is still registered with status
\* "pending" and no result_url
C31_Witness ==
    /\ pc = "notify"
    /\ note.kind = "success"
    /\ now > tasks_to_check[idx].created_at
    /\ \E t \in Range(tasks) :
          t.uid = tasks_to_check[idx].uid /\ t.status = "pending" /\ t.result_url = None
    /\ \E u \in Created : Delivered(u) /\ ~InDelivery(u) /\ u \notin Registered

----------------------------------------------------------------------------
(* Claims about access control, checked under SpecAuth *)

\* the environment value names the user: one of its comma-separated entries is,
\* without the surrounding spaces, the decimal text of the id
Listed(str, user_id) ==
    \E i \in DOMAIN split(str, ",") : int(strip(split(str, ",")[i])) = user_id

\* the middleware handled an event that came from a user
FromUser == event # NoEvent /\ event.from_user # NoUser

\* C34: with a non-empty ALLOWED_USER_IDS environment value, an event from a user the
\* value does not list never reaches a handler, and unless the answer's request
\* failed the event was answered with the refusal; an event from a user the value
\* lists reaches its handler.
C34_OnlyListedUsersReachHandlers ==
    FromUser =>
        /\ (allowed_ids_str # <<>> /\ ~Listed(allowed_ids_str, event.from_user)) =>
              /\ ~answer.handler
              /\ answer.raised = "none" => answer.text # "none"
        /\ Listed(allowed_ids_str, event.from_user) => answer = Reached

============================================================================
